---- MODULE Spec2Model ----
(***************************************************************************)
(* OpenAPIEditor (src/src/types/OpenAPITypes.ts, lines 73-384): the        *)
(* reference-aware deletion of an operation from an OpenAPI document.      *)
(*                                                                         *)
(* Representation of the JavaScript values:                                *)
(*   - an optional field is a sequence of length 0 (absent) or 1;          *)
(*   - a "$ref" string is the sequence of its '/'-separated segments, and  *)
(*     the empty sequence when the object carries no "$ref";               *)
(*   - an object the code iterates by key (paths, the component pools,    *)
(*     content by media type, responses by status) is the sequence of its  *)
(*     entries [name, value] in key order;                                 *)
(*   - a pool that is absent behaves as a pool without entries.            *)
(***************************************************************************)
EXTENDS Integers, Sequences, FiniteSets, TLC

VARIABLES document, operationId, returned, before, initial, called, batch

vars == <<document, operationId, returned, before, initial, called, batch>>

(***************************************************************************)
(* Generic helpers on sequences and functions.                             *)
(***************************************************************************)
Range(s) == {s[i] : i \in DOMAIN s}

RECURSIVE SelectEntries(_, _)
SelectEntries(s, keep) ==
  IF s = <<>> THEN <<>>
  ELSE IF Head(s).name \in keep
       THEN <<Head(s)>> \o SelectEntries(Tail(s), keep)
       ELSE SelectEntries(Tail(s), keep)

Names(s) == {e.name : e \in Range(s)}

RECURSIVE Values(_)
Values(s) == IF s = <<>> THEN <<>> ELSE <<Head(s).value>> \o Values(Tail(s))

RECURSIVE Without(_, _)
Without(s, x) ==
  IF s = <<>> THEN <<>>
  ELSE IF Head(s) = x THEN Without(Tail(s), x) ELSE <<Head(s)>> \o Without(Tail(s), x)

(***************************************************************************)
(* Schema nodes.                                                           *)
(***************************************************************************)
Leaf ==
  [ref |-> <<>>, items |-> <<>>, properties |-> <<>>,
   additionalProperties |-> <<>>, allOf |-> <<>>, oneOf |-> <<>>, anyOf |-> <<>>]

SchemaRef(n) == <<"#", "components", "schemas", n>>
ResponseRef(n) == <<"#", "components", "responses", n>>
ParameterRef(n) == <<"#", "components", "parameters", n>>
RequestBodyRef(n) == <<"#", "components", "requestBodies", n>>

Ref(n) == [Leaf EXCEPT !.ref = SchemaRef(n)]
ArrayOf(x) == [Leaf EXCEPT !.items = <<x>>]
ObjectOf(ps) == [Leaf EXCEPT !.properties = ps]
MapOf(x) == [Leaf EXCEPT !.additionalProperties = <<x>>]
AllOf(xs) == [Leaf EXCEPT !.allOf = xs]
OneOf(xs) == [Leaf EXCEPT !.oneOf = xs]
AnyOf(xs) == [Leaf EXCEPT !.anyOf = xs]
\* additionalProperties: true, which is not an object
OpenObject == [Leaf EXCEPT !.additionalProperties = <<[flag |-> TRUE]>>]

IsObject(x) == "ref" \in DOMAIN x

(***************************************************************************)
(* The HTTP method slots of a path item, in the code's order.              *)
(***************************************************************************)
methods == <<"get", "post", "put", "delete", "patch", "options", "head", "trace">>

\* ref.split('/').pop() || ''
extractRefName(ref) == IF Len(ref) = 0 THEN "" ELSE ref[Len(ref)]

SchemaNames(doc) == Names(doc.schemas)

\* this.document.components?.schemas?.[refName]: <<>> when there is none
getSchemaByRef(doc, refName) ==
  IF refName \in SchemaNames(doc)
  THEN <<(CHOOSE e \in Range(doc.schemas) : e.name = refName).value>>
  ELSE <<>>

(***************************************************************************)
(* collectSchemaRefs(schema, refs, visited): acc is [refs, visited], the   *)
(* two sets the call mutates, and expanded, the names whose pool entry the *)
(* call has recursed into so far.                                          *)
(***************************************************************************)
RECURSIVE collectSchemaRefsAcc(_, _, _)
RECURSIVE collectEach(_, _, _)

collectEach(doc, nodes, acc) ==
  IF nodes = <<>> THEN acc
  ELSE collectEach(doc, Tail(nodes), collectSchemaRefsAcc(doc, Head(nodes), acc))

collectSchemaRefsAcc(doc, schema, acc) ==
  IF schema.ref # <<>>
  THEN LET refName == extractRefName(schema.ref)
           added == [acc EXCEPT !.refs = @ \cup {refName}]
       IN IF refName \notin acc.visited
          THEN LET marked == [added EXCEPT !.visited = @ \cup {refName}]
                   referencedSchema == getSchemaByRef(doc, refName)
               IN IF referencedSchema # <<>>
                  THEN collectSchemaRefsAcc(doc, referencedSchema[1],
                         [marked EXCEPT !.expanded = Append(@, refName)])
                  ELSE marked
          ELSE added
  ELSE LET a1 == collectEach(doc, schema.items, acc)
           a2 == collectEach(doc, schema.properties, a1)
           a3 == IF schema.additionalProperties # <<>>
                    /\ IsObject(schema.additionalProperties[1])
                 THEN collectSchemaRefsAcc(doc, schema.additionalProperties[1], a2)
                 ELSE a2
           a4 == collectEach(doc, schema.allOf, a3)
           a5 == collectEach(doc, schema.oneOf, a4)
       IN collectEach(doc, schema.anyOf, a5)

\* a call that records a name only when the pool holds an entry for it
collectSchemaRefsCallResolved(doc, schema, refs) ==
  LET call == collectSchemaRefsAcc(doc, schema,
                [refs |-> refs, visited |-> {}, expanded |-> <<>>])
  IN [call EXCEPT !.refs = refs \cup (@ \cap SchemaNames(doc))]

\* one call with the default visited = new Set(); expanded lists the names
\* whose pool entry the call recursed into, in the order of the recursion
collectSchemaRefsCall(doc, schema, refs) ==
  collectSchemaRefsAcc(doc, schema, [refs |-> refs, visited |-> {}, expanded |-> <<>>])

\* a call that records the names the node holds and expands none of them
collectSchemaRefsShallow(doc, schema, refs) ==
  collectSchemaRefsAcc(doc, schema,
    [refs |-> refs, visited |-> SchemaNames(doc), expanded |-> <<>>]).refs

\* the refs set after one call
collectSchemaRefs(doc, schema, refs) == collectSchemaRefsCall(doc, schema, refs).refs

RECURSIVE collectAll(_, _, _)
\* successive collectSchemaRefs(schema, refs) calls on one accumulator
collectAll(doc, nodes, refs) ==
  IF nodes = <<>> THEN refs
  ELSE collectAll(doc, Tail(nodes), collectSchemaRefs(doc, Head(nodes), refs))

(***************************************************************************)
(* The schemas the code hands to collectSchemaRefs, in the code's order.   *)
(***************************************************************************)
RECURSIVE ParamSchemas(_)
\* params.forEach(param => { if (param.schema) ... })
ParamSchemas(params) ==
  IF params = <<>> THEN <<>> ELSE Head(params).schema \o ParamSchemas(Tail(params))

RECURSIVE ContentSchemas(_)
\* Object.values(content).forEach(content => { if (content.schema) ... })
ContentSchemas(content) ==
  IF content = <<>> THEN <<>>
  ELSE Head(content).value.schema \o ContentSchemas(Tail(content))

\* a request body or a response: if (x.content) ...
BodySchemas(x) == IF x.content # <<>> THEN ContentSchemas(x.content[1]) ELSE <<>>

RECURSIVE BodiesSchemas(_)
BodiesSchemas(xs) ==
  IF xs = <<>> THEN <<>> ELSE BodySchemas(Head(xs)) \o BodiesSchemas(Tail(xs))

OperationSchemas(operation) ==
  (IF operation.parameters # <<>> THEN ParamSchemas(operation.parameters[1]) ELSE <<>>)
  \o (IF operation.requestBody # <<>> THEN BodySchemas(operation.requestBody[1]) ELSE <<>>)
  \o BodiesSchemas(Values(operation.responses))

collectRefs(doc, operation, refs) == collectAll(doc, OperationSchemas(operation), refs)

(***************************************************************************)
(* Path items.                                                             *)
(***************************************************************************)
\* Object.keys(pathItem)
Keys(pathItem) ==
  DOMAIN pathItem.ops \cup (IF pathItem.parameters # <<>> THEN {"parameters"} ELSE {})

RECURSIVE ItemOperations(_, _)
\* the operations of a path item, in the order of the methods array from i on
ItemOperations(pathItem, i) ==
  IF i > Len(methods) THEN <<>>
  ELSE (IF methods[i] \in DOMAIN pathItem.ops THEN <<pathItem.ops[methods[i]]>> ELSE <<>>)
       \o ItemOperations(pathItem, i + 1)

RECURSIVE AllOperations(_)
AllOperations(paths) ==
  IF paths = <<>> THEN <<>>
  ELSE ItemOperations(Head(paths).value, 1) \o AllOperations(Tail(paths))

RECURSIVE OperationsSchemas(_)
OperationsSchemas(ops) ==
  IF ops = <<>> THEN <<>> ELSE OperationSchemas(Head(ops)) \o OperationsSchemas(Tail(ops))

PathItemSchemas(pathItem) ==
  (IF pathItem.parameters # <<>> THEN ParamSchemas(pathItem.parameters[1]) ELSE <<>>)
  \o OperationsSchemas(ItemOperations(pathItem, 1))

RECURSIVE PathsSchemas(_)
PathsSchemas(paths) ==
  IF paths = <<>> THEN <<>>
  ELSE PathItemSchemas(Head(paths).value) \o PathsSchemas(Tail(paths))

\* the scan of components: parameters, then requestBodies, then responses
ComponentSchemas(doc) ==
  ParamSchemas(Values(doc.parameters))
  \o BodiesSchemas(Values(doc.requestBodies))
  \o BodiesSchemas(Values(doc.responses))

\* a scan of the paths alone
getAllUsedRefsOfPaths(doc) == collectAll(doc, PathsSchemas(doc.paths), {})

getAllUsedRefs(doc) ==
  collectAll(doc, PathsSchemas(doc.paths) \o ComponentSchemas(doc), {})

(***************************************************************************)
(* deleteSchemas: the sweep over the candidates, in the iteration order of *)
(* the schemasToDelete set (its insertion order).                          *)
(***************************************************************************)
\* a test that lets a candidate go only when nothing it references is left
canDeleteOnlyAbsent(doc, schemasToDelete, schema) ==
  \A ref \in collectSchemaRefs(doc, schema, {}) : getSchemaByRef(doc, ref) = <<>>

canDelete(doc, schemasToDelete, schema) ==
  \A ref \in collectSchemaRefs(doc, schema, {}) :
    ref \notin Range(schemasToDelete) \/ getSchemaByRef(doc, ref) = <<>>

RECURSIVE sweepPass(_, _)
\* one execution of the for loop: st is [doc, schemasToDelete, deleted]
sweepPass(st, todo) ==
  IF todo = <<>> THEN st
  ELSE LET schemaName == Head(todo)
           schema == getSchemaByRef(st.doc, schemaName)
       IN IF schema = <<>> THEN sweepPass(st, Tail(todo))
          ELSE IF canDelete(st.doc, st.schemasToDelete, schema[1])
               THEN sweepPass(
                      [doc |-> [st.doc EXCEPT !.schemas =
                                  SelectEntries(@, SchemaNames(st.doc) \ {schemaName})],
                       schemasToDelete |-> Without(st.schemasToDelete, schemaName),
                       deleted |-> TRUE],
                      Tail(todo))
               ELSE sweepPass(st, Tail(todo))

\* a sweep of a single pass
deleteSchemasOnePass(doc, schemasToDelete) ==
  sweepPass([doc |-> doc, schemasToDelete |-> schemasToDelete, deleted |-> FALSE],
            schemasToDelete).doc

\* a sweep that deletes every candidate outright
deleteSchemasOutright(doc, schemasToDelete) ==
  [doc EXCEPT !.schemas = SelectEntries(@, SchemaNames(doc) \ Range(schemasToDelete))]

\* a loop of exactly two passes
deleteSchemasLoopTwice(doc, schemasToDelete, passes) ==
  LET st1 == sweepPass([doc |-> doc, schemasToDelete |-> schemasToDelete,
                        deleted |-> FALSE], schemasToDelete)
      st2 == sweepPass([doc |-> st1.doc, schemasToDelete |-> st1.schemasToDelete,
                        deleted |-> FALSE], st1.schemasToDelete)
  IN [doc |-> st2.doc, passes |-> passes \o <<st1.deleted, st2.deleted>>]

RECURSIVE deleteSchemasLoop(_, _, _)
\* the do-while loop: the document afterwards, and for each pass made the
\* value of deleted at its end
deleteSchemasLoop(doc, schemasToDelete, passes) ==
  LET st == sweepPass([doc |-> doc, schemasToDelete |-> schemasToDelete,
                       deleted |-> FALSE], schemasToDelete)
  IN IF st.deleted /\ st.schemasToDelete # <<>>
     THEN deleteSchemasLoop(st.doc, st.schemasToDelete, Append(passes, st.deleted))
     ELSE [doc |-> st.doc, passes |-> Append(passes, st.deleted)]

deleteSchemas(doc, schemasToDelete) == deleteSchemasLoop(doc, schemasToDelete, <<>>).doc

RECURSIVE NamesNotIn(_, _)
\* the keys of a pool that are not in usedRefs, in key order
NamesNotIn(pool, usedRefs) ==
  IF pool = <<>> THEN <<>>
  ELSE (IF Head(pool).name \notin usedRefs THEN <<Head(pool).name>> ELSE <<>>)
       \o NamesNotIn(Tail(pool), usedRefs)

\* a cleanup that deletes what the removed operations referenced
cleanupCollectedRefs(doc, refs) ==
  [doc EXCEPT !.schemas = SelectEntries(@, SchemaNames(doc) \ refs)]

\* a cleanup that tests the reusable entries against what the paths use
cleanupUnusedRefsByPaths(doc, refs) ==
  LET usedRefs == getAllUsedRefs(doc)
      pathRefs == getAllUsedRefsOfPaths(doc)
      schemasToDelete == NamesNotIn(doc.schemas, usedRefs)
      pruned == [doc EXCEPT
                   !.parameters = SelectEntries(@, pathRefs),
                   !.responses = SelectEntries(@, pathRefs),
                   !.requestBodies = SelectEntries(@, pathRefs)]
  IN deleteSchemas(pruned, schemasToDelete)

\* the refs argument is never read by the code
cleanupUnusedRefs(doc, refs) ==
  LET usedRefs == getAllUsedRefs(doc)
      schemasToDelete == NamesNotIn(doc.schemas, usedRefs)
      pruned == [doc EXCEPT
                   !.parameters = SelectEntries(@, usedRefs),
                   !.responses = SelectEntries(@, usedRefs),
                   !.requestBodies = SelectEntries(@, usedRefs)]
  IN deleteSchemas(pruned, schemasToDelete)

(***************************************************************************)
(* cleanupUnusedTags.                                                      *)
(***************************************************************************)
\* (operation?.tags || [])
OperationTags(operation) ==
  IF operation.tags # <<>> THEN Range(operation.tags[1]) ELSE {}

usedTags(doc) ==
  UNION {OperationTags(op) : op \in Range(AllOperations(doc.paths))}

\* a cleanup that drops every tag no remaining operation uses
cleanupEveryUnusedTag(doc, deletedTags) ==
  IF doc.tags = <<>> \/ Len(doc.tags[1]) = 0 \/ deletedTags = {} THEN doc
  ELSE LET used == usedTags(doc)
           kept == SelectSeq(doc.tags[1], LAMBDA tag : tag.name \in used)
       IN [doc EXCEPT !.tags = IF Len(kept) = 0 THEN <<>> ELSE <<kept>>]

cleanupUnusedTags(doc, deletedTags) ==
  IF doc.tags = <<>> \/ Len(doc.tags[1]) = 0 \/ deletedTags = {} THEN doc
  ELSE LET used == usedTags(doc)
           kept == SelectSeq(doc.tags[1],
                             LAMBDA tag : tag.name \notin deletedTags \/ tag.name \in used)
       IN [doc EXCEPT !.tags = IF Len(kept) = 0 THEN <<>> ELSE <<kept>>]

(***************************************************************************)
(* deleteFunction.                                                         *)
(***************************************************************************)
\* operation?.operationId === operationId
Matches(operation, id) == operation.operationId = <<id>>

RECURSIVE ItemSlots(_, _, _)
ItemSlots(entry, id, i) ==
  IF i > Len(methods) THEN <<>>
  ELSE (IF methods[i] \in DOMAIN entry.value.ops
           /\ Matches(entry.value.ops[methods[i]], id)
        THEN <<[path |-> entry.name, method |-> methods[i]]>> ELSE <<>>)
       \o ItemSlots(entry, id, i + 1)

RECURSIVE PathSlots(_, _)
PathSlots(paths, id) ==
  IF paths = <<>> THEN <<>>
  ELSE ItemSlots(Head(paths), id, 1) \o PathSlots(Tail(paths), id)

\* a scan that leaves out the trace slot
matchingSlotsNoTrace(doc, id) ==
  SelectSeq(PathSlots(doc.paths, id), LAMBDA slot : slot.method # "trace")

\* a scan that stops at the first match
firstMatchingSlot(doc, id) ==
  IF PathSlots(doc.paths, id) = <<>> THEN <<>> ELSE <<Head(PathSlots(doc.paths, id))>>

\* the slots whose operation the two nested loops find matching, in the
\* order of the enumeration
matchingSlots(doc, id) == PathSlots(doc.paths, id)

PathItemAt(doc, path) == (CHOOSE e \in Range(doc.paths) : e.name = path).value

RECURSIVE ReplaceItem(_, _, _)
ReplaceItem(paths, path, item) ==
  IF paths = <<>> THEN <<>>
  ELSE (IF Head(paths).name = path THEN <<[name |-> path, value |-> item]>>
        ELSE <<Head(paths)>>)
       \o ReplaceItem(Tail(paths), path, item)

\* a removal that drops the path as soon as the item has no method left
removeOperationNoMethod(doc, slot) ==
  LET pathItem == PathItemAt(doc, slot.path)
      emptied == [pathItem EXCEPT
                    !.ops = [m \in DOMAIN pathItem.ops \ {slot.method} |-> pathItem.ops[m]]]
  IN IF DOMAIN emptied.ops = {}
     THEN [doc EXCEPT !.paths = SelectEntries(@, Names(doc.paths) \ {slot.path})]
     ELSE [doc EXCEPT !.paths = ReplaceItem(@, slot.path, emptied)]

\* a removal that also drops the path-level parameters of the item
removeOperationAndParameters(doc, slot) ==
  LET pathItem == PathItemAt(doc, slot.path)
      emptied == [ops |-> [m \in DOMAIN pathItem.ops \ {slot.method} |-> pathItem.ops[m]],
                  parameters |-> <<>>]
  IN IF Cardinality(Keys(emptied)) = 0
     THEN [doc EXCEPT !.paths = SelectEntries(@, Names(doc.paths) \ {slot.path})]
     ELSE [doc EXCEPT !.paths = ReplaceItem(@, slot.path, emptied)]

\* delete pathItem[method]; then delete the path when the item has no key left
removeOperation(doc, slot) ==
  LET pathItem == PathItemAt(doc, slot.path)
      emptied == [pathItem EXCEPT
                    !.ops = [m \in DOMAIN pathItem.ops \ {slot.method} |-> pathItem.ops[m]]]
  IN IF Cardinality(Keys(emptied)) = 0
     THEN [doc EXCEPT !.paths = SelectEntries(@, Names(doc.paths) \ {slot.path})]
     ELSE [doc EXCEPT !.paths = ReplaceItem(@, slot.path, emptied)]

RECURSIVE removeMatching(_, _)
\* the body of the if, for each matching slot: st is
\* [doc, deletedTags, unusedRefs, deleted]
removeMatching(st, slots) ==
  IF slots = <<>> THEN st
  ELSE LET slot == Head(slots)
           operation == PathItemAt(st.doc, slot.path).ops[slot.method]
       IN removeMatching(
            [doc |-> removeOperation(st.doc, slot),
             deletedTags |-> st.deletedTags \cup OperationTags(operation),
             unusedRefs |-> collectRefs(st.doc, operation, st.unusedRefs),
             deleted |-> TRUE],
            Tail(slots))

\* a deleteFunction that runs the cleanup whether or not it deleted
deleteFunctionAlwaysCleans(doc, id) ==
  LET st == removeMatching([doc |-> doc, deletedTags |-> {}, unusedRefs |-> {},
                            deleted |-> FALSE], matchingSlots(doc, id))
  IN [document |-> cleanupUnusedTags(cleanupUnusedRefs(st.doc, st.unusedRefs),
                                     st.deletedTags),
      deleted |-> st.deleted]

\* the document afterwards and the value returned
deleteFunction(doc, id) ==
  LET st == removeMatching([doc |-> doc, deletedTags |-> {}, unusedRefs |-> {},
                            deleted |-> FALSE], matchingSlots(doc, id))
  IN IF st.deleted
     THEN [document |-> cleanupUnusedTags(cleanupUnusedRefs(st.doc, st.unusedRefs),
                                          st.deletedTags),
           deleted |-> TRUE]
     ELSE [document |-> st.doc, deleted |-> FALSE]

(***************************************************************************)
(* Documents: constructors of the parsed values the editor is given.       *)
(***************************************************************************)
Json(node) == <<[name |-> "application/json", value |-> [schema |-> <<node>>]]>>

ParamWith(node) == [ref |-> <<>>, schema |-> <<node>>]
ParamByRef(n) == [ref |-> ParameterRef(n), schema |-> <<>>]
BodyWith(node) == [ref |-> <<>>, content |-> <<Json(node)>>]
BodyByRef(ref) == [ref |-> ref, content |-> <<>>]
\* a response that carries a description only
PlainResponse == [ref |-> <<>>, content |-> <<>>]

Operation(id, tags, parameters, requestBody, responses) ==
  [operationId |-> id, tags |-> tags, parameters |-> parameters,
   requestBody |-> requestBody, responses |-> responses]

\* an operation that uses name n at one place; "none" uses nothing
OperationUsing(id, tags, place, n) ==
  CASE place = "response" ->
         Operation(id, tags, <<>>, <<>>, <<[name |-> "200", value |-> BodyWith(Ref(n))]>>)
    [] place = "requestBody" ->
         Operation(id, tags, <<>>, <<BodyWith(ArrayOf(Ref(n)))>>,
                   <<[name |-> "204", value |-> PlainResponse]>>)
    [] place = "parameter" ->
         Operation(id, tags, <<<<ParamWith(Ref(n))>>>>, <<>>,
                   <<[name |-> "204", value |-> PlainResponse]>>)
    [] place = "responses" ->
         Operation(id, tags, <<>>, <<>>,
                   <<[name |-> "200", value |-> PlainResponse],
                     [name |-> "404", value |-> BodyByRef(ResponseRef(n))]>>)
    [] place = "parameters" ->
         Operation(id, tags, <<<<ParamByRef(n)>>>>, <<>>,
                   <<[name |-> "204", value |-> PlainResponse]>>)
    [] place = "requestBodies" ->
         Operation(id, tags, <<>>, <<BodyByRef(RequestBodyRef(n))>>,
                   <<[name |-> "204", value |-> PlainResponse]>>)
    [] OTHER ->
         Operation(id, tags, <<>>, <<>>, <<[name |-> "204", value |-> PlainResponse]>>)

PathItem(ops, parameters) == [ops |-> ops, parameters |-> parameters]

Document(paths, schemas, parameters, responses, requestBodies, tags) ==
  [paths |-> paths, schemas |-> schemas, parameters |-> parameters,
   responses |-> responses, requestBodies |-> requestBodies, tags |-> tags]

(***************************************************************************)
(* Bounds of the documents explored.                                       *)
(***************************************************************************)
\* the most names one schema of the pool references directly
MaxRefsPerSchema == 2

SchemaKeys == <<"A", "B", "C">>
OperationIds == {"op1", "op2", "op9"}

RECURSIVE Pick(_, _)
\* the names of targets, in the order of keys
Pick(keys, targets) ==
  IF keys = <<>> THEN <<>>
  ELSE (IF Head(keys) \in targets THEN <<Head(keys)>> ELSE <<>>) \o Pick(Tail(keys), targets)

\* the body of schema name that references the names ts directly: "A" is an
\* object with properties, "B" an alias or an allOf, "C" a map with combiners
Body(name, ts) ==
  CASE name = "A" ->
         IF ts = <<>> THEN Leaf
         ELSE ObjectOf([i \in 1..Len(ts) |->
                          IF i = 1 THEN Ref(ts[i]) ELSE ArrayOf(Ref(ts[i]))])
    [] name = "B" ->
         IF ts = <<>> THEN OpenObject
         ELSE IF Len(ts) = 1 THEN Ref(ts[1])
         ELSE AllOf([i \in 1..Len(ts) |->
                       IF i = 1 THEN Ref(ts[i]) ELSE ObjectOf(<<Ref(ts[i])>>)])
    [] OTHER ->
         IF ts = <<>> THEN Leaf
         ELSE IF Len(ts) = 1 THEN MapOf(Ref(ts[1]))
         ELSE [OneOf(<<Ref(ts[1])>>) EXCEPT
                 !.anyOf = [i \in 1..(Len(ts) - 1) |-> Ref(ts[i + 1])]]

Reverse(s) == [i \in 1..Len(s) |-> s[Len(s) + 1 - i]]

Targets == {ts \in SUBSET Range(SchemaKeys) : Cardinality(ts) <= MaxRefsPerSchema}
Graphs == [Range(SchemaKeys) -> Targets]

\* the schema pool of graph g over the keys, in the order given
Pool(keys, g) ==
  [i \in 1..Len(keys) |->
     [name |-> keys[i], value |-> Body(keys[i], Pick(SchemaKeys, g[keys[i]]))]]

Edges(pairs) == [n \in Range(SchemaKeys) |-> {p[2] : p \in {q \in pairs : q[1] = n}}]

\* op1 uses schema A in a response, op2 uses u2 in its request body
GraphDoc(g, u2, rev) ==
  Document(
    <<[name |-> "/a", value |->
         PathItem([m \in {"get"} |-> OperationUsing(<<"op1">>, <<>>, "response", "A")],
                  <<>>)],
      [name |-> "/b", value |->
         PathItem([m \in {"post"} |->
                     OperationUsing(<<"op2">>, <<>>,
                                    IF u2 = "-" THEN "none" ELSE "requestBody", u2)],
                  <<>>)]>>,
    Pool(IF rev THEN Reverse(SchemaKeys) ELSE SchemaKeys, g),
    <<>>, <<>>, <<>>, <<>>)

\* the pool in reverse key order where op2 uses nothing
GraphDocs ==
  {GraphDoc(g, u2, FALSE) : g \in Graphs, u2 \in {"-", "A", "B", "C"}}
  \cup {GraphDoc(g, "-", TRUE) : g \in Graphs}

\* one reusable entry, named entry, in the pool kind; its schema references
\* target; op2 references that entry, or uses schema B in a parameter, or
\* uses a schema Z that the pool does not hold, or uses nothing
PoolDoc(g, kind, entry, target, use) ==
  LET value == IF kind = "parameters"
               THEN (IF target = "-" THEN [ref |-> <<>>, schema |-> <<>>]
                     ELSE ParamWith(Ref(target)))
               ELSE (IF target = "-" THEN PlainResponse ELSE BodyWith(Ref(target)))
      pool(k) == IF k = kind THEN <<[name |-> entry, value |-> value]>> ELSE <<>>
      place == CASE use = "entry" -> kind
                 [] use \in {"schema", "dangling"} -> "parameter"
                 [] OTHER -> "none"
      used == CASE use = "entry" -> entry [] use = "dangling" -> "Z" [] OTHER -> "B"
  IN Document(
       <<[name |-> "/a", value |->
            PathItem([m \in {"get", "put"} |->
                        IF m = "get"
                        THEN OperationUsing(<<"op1">>, <<>>, "response", "A")
                        ELSE OperationUsing(<<"op2">>, <<>>, place, used)],
                     <<>>)]>>,
       Pool(SchemaKeys, g),
       pool("parameters"), pool("responses"), pool("requestBodies"), <<>>)

PoolGraphs ==
  {Edges({<<"A", "B">>, <<"B", "C">>}), Edges({<<"A", "C">>}), Edges({<<"B", "B">>})}

PoolDocs ==
  {PoolDoc(g, kind, entry, target, use) :
     g \in PoolGraphs,
     kind \in {"parameters", "responses", "requestBodies"},
     entry \in {"R", "B"},
     target \in {"-", "B", "C", "Z"},
     use \in {"none", "entry", "schema", "dangling"}}

\* /a carries op1 at get and possibly a second operation at post and
\* path-level parameters; /b possibly carries an operation at trace
PathDoc(id2, id3, pathParams, tagList, tags2) ==
  LET second == OperationUsing(IF id2 = "-" THEN <<>> ELSE <<id2>>,
                               IF tags2 = "-" THEN <<>> ELSE <<<<tags2>>>>,
                               "requestBody", "B")
      third == OperationUsing(<<id3>>, <<<<"t1", "t2">>>>, "parameter", "C")
      opsA == [m \in (IF id2 = "absent" THEN {"get"} ELSE {"get", "post"}) |->
                 IF m = "get"
                 THEN OperationUsing(<<"op1">>, <<<<"t1">>>>, "response", "A")
                 ELSE second]
      params == CASE pathParams = "empty" -> <<<<>>>>
                  [] pathParams = "schema" -> <<<<ParamWith(Ref("C"))>>>>
                  [] OTHER -> <<>>
  IN Document(
       <<[name |-> "/a", value |-> PathItem(opsA, params)]>>
       \o (IF id3 = "absent" THEN <<>>
           ELSE <<[name |-> "/b", value |-> PathItem([m \in {"trace"} |-> third], <<>>)]>>),
       Pool(SchemaKeys, Edges({<<"A", "C">>})),
       <<>>, <<>>, <<>>,
       IF tagList = "absent" THEN <<>>
       ELSE <<[i \in 1..Len(tagList) |-> [name |-> tagList[i]]]>>)

PathDocs ==
  {PathDoc(id2, id3, pathParams, tagList, tags2) :
     id2 \in {"absent", "-", "op1", "op2"},
     id3 \in {"absent", "op1", "op2"},
     pathParams \in {"absent", "empty", "schema"},
     tagList \in {"absent", <<>>, <<"t1">>, <<"t1", "t2", "t3">>},
     tags2 \in {"-", "t1", "t2"}}

Documents == GraphDocs \cup PoolDocs \cup PathDocs

(***************************************************************************)
(* The editor: new OpenAPIEditor(document), then deleteFunction calls.     *)
(***************************************************************************)
Init ==
  /\ document \in Documents
  /\ operationId = ""
  /\ returned = FALSE
  /\ before = document
  /\ initial = document
  /\ called = {}
  /\ batch = <<>>

\* handleDelete (src/src/app/page.tsx): one deleteFunction call
DeleteFunction(id) ==
  LET result == deleteFunction(document, id)
  IN /\ document' = result.document
     /\ returned' = result.deleted
     /\ operationId' = id
     /\ before' = document
     /\ called' = called \cup {id}
     /\ batch' = <<id>>
     /\ UNCHANGED initial

Next == \E id \in OperationIds : DeleteFunction(id)

Spec == Init /\ [][Next]_vars

(***************************************************************************)
(* handleDeleteSelected (src/src/app/page.tsx): deleteFunction once per    *)
(* selected id, in the insertion order of the selectedOperations set.      *)
(***************************************************************************)
\* a batch that stops after the first selected id
deleteSelectedFirst(doc, ids) == deleteFunction(doc, ids[1])

RECURSIVE deleteSelected(_, _)
\* selectedOperations.forEach(operationId => editor.deleteFunction(operationId)):
\* the result of the last call, [document, deleted]
deleteSelected(doc, ids) ==
  IF Len(ids) = 1 THEN deleteFunction(doc, ids[1])
  ELSE deleteSelected(deleteFunction(doc, Head(ids)).document, Tail(ids))

\* the orders in which the ids of a non-empty selection can have been added
Orders(ids) ==
  {order \in [1..Cardinality(ids) -> ids] : Range(order) = ids}

\* FunctionList (src/src/components/FunctionList.tsx): the operations that
\* carry an operationId are listed, and only a listed id can be selected
ListedIds(doc) ==
  {op.operationId[1] : op \in {o \in Range(AllOperations(doc.paths)) : o.operationId # <<>>}}

Selections(doc) == UNION {Orders(ids) : ids \in SUBSET ListedIds(doc) \ {{}}}

HandleDeleteSelected(selectedOperations) ==
  LET result == deleteSelected(document, selectedOperations)
  IN /\ document' = result.document
     /\ returned' = result.deleted
     /\ operationId' = selectedOperations[Len(selectedOperations)]
     /\ before' = document
     /\ called' = called \cup Range(selectedOperations)
     /\ batch' = selectedOperations
     /\ UNCHANGED initial

NextSelected ==
  \E selectedOperations \in Selections(document) : HandleDeleteSelected(selectedOperations)

SpecSelected == Init /\ [][NextSelected]_vars

(***************************************************************************)
(* cleanupUnusedRefs on its own: the editor inside deleteFunction, after   *)
(* the loop over the paths has removed the matching operations.            *)
(***************************************************************************)
InitCleanup ==
  \E doc \in Documents, id \in OperationIds :
    LET st == removeMatching([doc |-> doc, deletedTags |-> {}, unusedRefs |-> {},
                              deleted |-> FALSE], matchingSlots(doc, id))
    IN /\ st.deleted
       /\ document = st.doc
       /\ before = st.doc
       /\ initial = doc
       /\ operationId = id
       /\ returned = TRUE
       /\ called = {id}
       /\ batch = <<id>>

CleanupUnusedRefs ==
  /\ document' = cleanupUnusedRefs(document, {})
  /\ before' = document
  /\ UNCHANGED <<operationId, returned, initial, called, batch>>

NextCleanup == CleanupUnusedRefs

SpecCleanup == InitCleanup /\ [][NextCleanup]_vars

(***************************************************************************)
(* Vocabulary of the properties: what a document holds and references,     *)
(* defined on the document alone.                                          *)
(***************************************************************************)
Children(node) ==
  Range(node.items) \cup Range(node.properties)
  \cup {x \in Range(node.additionalProperties) : IsObject(x)}
  \cup Range(node.allOf) \cup Range(node.oneOf) \cup Range(node.anyOf)

RECURSIVE NodeRefs(_)
\* the "$ref" values a schema node holds, itself or nested inline
NodeRefs(node) ==
  IF node.ref # <<>> THEN {node.ref} ELSE UNION {NodeRefs(c) : c \in Children(node)}

NodesRefs(nodes) == UNION {NodeRefs(n) : n \in Range(nodes)}

OwnRefs(xs) == {x.ref : x \in {y \in xs : y.ref # <<>>}}

\* every "$ref" an operation holds
OperationRefs(op) ==
  NodesRefs(OperationSchemas(op))
  \cup (IF op.parameters # <<>> THEN OwnRefs(Range(op.parameters[1])) ELSE {})
  \cup OwnRefs(Range(op.requestBody))
  \cup OwnRefs(Range(Values(op.responses)))

PathItemRefs(item) ==
  IF item.parameters # <<>>
  THEN NodesRefs(ParamSchemas(item.parameters[1])) \cup OwnRefs(Range(item.parameters[1]))
  ELSE {}

\* every "$ref" held under paths
PathRefs(doc) ==
  UNION {OperationRefs(op) : op \in Range(AllOperations(doc.paths))}
  \cup UNION {PathItemRefs(e.value) : e \in Range(doc.paths)}

\* every "$ref" held by a reusable parameter, request body or response
ReusableRefs(doc) ==
  NodesRefs(ComponentSchemas(doc))
  \cup OwnRefs(Range(Values(doc.parameters)) \cup Range(Values(doc.requestBodies))
               \cup Range(Values(doc.responses)))

SchemaPoolRefs(doc) == UNION {NodeRefs(e.value) : e \in Range(doc.schemas)}

RefKind(ref) == ref[3]
RefName(ref) == ref[4]

\* the reference names an entry that exists in the pool of its kind
Resolves(doc, ref) == RefName(ref) \in Names(doc[RefKind(ref)])

SchemaTargets(refs) == {RefName(r) : r \in {q \in refs : RefKind(q) = "schemas"}}

\* the schemas that schema n references directly
Direct(doc, n) ==
  IF n \in SchemaNames(doc) THEN SchemaTargets(NodeRefs(getSchemaByRef(doc, n)[1])) ELSE {}

RECURSIVE Reach(_, _)
\* the names reachable from the names ns through zero or more reference hops
Reach(doc, ns) ==
  LET more == ns \cup UNION {Direct(doc, n) : n \in ns}
  IN IF more = ns THEN ns ELSE Reach(doc, more)

\* the names reachable from n through one or more hops
ReachPlus(doc, n) == Reach(doc, Direct(doc, n))

OnCycle(doc, n) == n \in ReachPlus(doc, n)

\* the names some operation, path-level parameter or reusable entry reaches
Live(doc) == Reach(doc, SchemaTargets(PathRefs(doc) \cup ReusableRefs(doc)))

\* the operations deleteFunction(id) is to remove
Matching(doc, id) == {op \in Range(AllOperations(doc.paths)) : op.operationId = <<id>>}

Succeeded == called # {} /\ returned

(***************************************************************************)
(* C1: deleteFunction(id) returns true exactly when some operation in a    *)
(* method slot of some path item carries operationId = id at call time,    *)
(* and a call that returns false leaves the whole document as it was.      *)
(***************************************************************************)
C1_ReturnsFound ==
  called # {} =>
    /\ returned <=> (\E e \in Range(before.paths) : \E m \in DOMAIN e.value.ops :
                       m \in Range(methods) /\ e.value.ops[m].operationId = <<operationId>>)
    /\ ~returned => document = before

C1_Witness ==
  /\ called # {} /\ ~returned /\ document = before
  /\ AllOperations(document.paths) # <<>>
  /\ document # initial

(***************************************************************************)
(* C2: if every reference of the loaded document resolves, then after a    *)
(* successful deleteFunction every reference held by a remaining           *)
(* operation or component-pool entry still resolves.                       *)
(***************************************************************************)
AllRefs(doc) == PathRefs(doc) \cup ReusableRefs(doc) \cup SchemaPoolRefs(doc)

AllResolve(doc) == \A ref \in AllRefs(doc) : Resolves(doc, ref)

C2_NoDanglingReferences ==
  (AllResolve(initial) /\ Succeeded) => AllResolve(document)

(***************************************************************************)
(* C3: no call deletes a pool entry of any kind that a surviving           *)
(* operation, parameter, response or request body references.              *)
(***************************************************************************)
C3_ReferencedEntryKept ==
  Succeeded =>
    \A ref \in PathRefs(document) \cup ReusableRefs(document) :
      Resolves(before, ref) => Resolves(document, ref)

(***************************************************************************)
(* C4: shared-component preservation.  Operations with operationIds a and  *)
(* b both reference schema S of the loaded document and nothing else       *)
(* does.                                                                   *)
(***************************************************************************)
UsesSchema(op, S) == S \in SchemaTargets(OperationRefs(op))

\* a and b each name exactly one operation, both use S, and no other
\* operation, path-level parameter, reusable entry or schema references S
SharedBy(doc, S, a, b) ==
  /\ a # b
  /\ Cardinality(Matching(doc, a)) = 1
  /\ Cardinality(Matching(doc, b)) = 1
  /\ \A op \in Range(AllOperations(doc.paths)) :
       UsesSchema(op, S) <=> op.operationId \in {<<a>>, <<b>>}
  /\ \A e \in Range(doc.paths) : S \notin SchemaTargets(PathItemRefs(e.value))
  /\ S \notin SchemaTargets(ReusableRefs(doc) \cup SchemaPoolRefs(doc))

\* C4 as stated: if a and b share S, then S stays while one of the two
\* operations has not been deleted, and is gone once deleteFunction was
\* called for both
C4_SharedThenRemoved ==
  \A S \in SchemaNames(initial) : \A a, b \in OperationIds :
    \/ a = b
    \/ /\ (a \notin called \/ b \notin called) => S \in SchemaNames(document)
       /\ {a, b} \subseteq called => S \notin SchemaNames(document)
    \/ ~SharedBy(initial, S, a, b)

NoCycleFrom(doc, n) == \A z \in Reach(doc, {n}) : ~OnCycle(doc, z)

\* C4 amended: if a and b share S, then S stays while one of the two
\* operations has not been deleted; once deleteFunction was called for both,
\* S is gone provided no reference cycle can be reached from S
C4_SharedThenRemovedUnlessCycle ==
  \A S \in SchemaNames(initial) : \A a, b \in OperationIds :
    \/ a = b
    \/ /\ (a \notin called \/ b \notin called) => S \in SchemaNames(document)
       /\ {a, b} \subseteq called
            => (S \notin SchemaNames(document) \/ ~NoCycleFrom(initial, S))
    \/ ~SharedBy(initial, S, a, b)

C4_Witness ==
  \E S \in SchemaNames(initial) :
    /\ SharedBy(initial, S, "op1", "op2")
    /\ NoCycleFrom(initial, S)
    /\ called = {"op1", "op2"}
    /\ S \in SchemaNames(before)
    /\ S \notin SchemaNames(document)

(***************************************************************************)
(* C5: after a successful deleteFunction every schema left in the pool is  *)
(* reachable from something present in the resulting document, or can      *)
(* reach a reference cycle of unreachable schemas.                         *)
(***************************************************************************)
ReachesDeadCycle(doc, n) ==
  \E z \in Reach(doc, {n}) : z \in SchemaNames(doc) /\ z \notin Live(doc) /\ OnCycle(doc, z)

C5_CollectionComplete ==
  Succeeded =>
    \A S \in SchemaNames(document) :
      S \in Live(document) \/ ReachesDeadCycle(document, S)

(***************************************************************************)
(* C6: transitive cleanup.  A schema X that only the deleted operations    *)
(* reach, and from which no reference cycle can be reached, is removed by  *)
(* the call together with every schema reachable from it.                  *)
(***************************************************************************)
\* the document at call time without the operations the call removes
Survivors(doc, id) ==
  [doc EXCEPT !.paths =
     [i \in 1..Len(doc.paths) |->
        [doc.paths[i] EXCEPT !.value.ops =
           [m \in {k \in DOMAIN doc.paths[i].value.ops :
                     doc.paths[i].value.ops[k].operationId # <<id>>} |->
              doc.paths[i].value.ops[m]]]]]

\* the schemas the removed operations reach
ReachedByDeleted(doc, id) ==
  Reach(doc, SchemaTargets(UNION {OperationRefs(op) : op \in Matching(doc, id)}))

OnlyDeletedReaches(X) ==
  /\ X \in SchemaNames(before)
  /\ X \in ReachedByDeleted(before, operationId)
  /\ Reach(before, {X}) \cap Live(Survivors(before, operationId)) = {}

C6_TransitiveCleanup ==
  Succeeded =>
    \A X \in SchemaNames(before) :
      (OnlyDeletedReaches(X) /\ NoCycleFrom(before, X))
        => Reach(before, {X}) \cap SchemaNames(document) = {}

\* a chain X -> Y -> Z of three schemas was removed by one call
C6_Witness ==
  /\ Succeeded
  /\ \E X, Y, Z \in SchemaNames(before) :
       /\ Cardinality({X, Y, Z}) = 3
       /\ Y \in Direct(before, X) /\ Z \in Direct(before, Y)
       /\ OnlyDeletedReaches(X) /\ NoCycleFrom(before, X)
       /\ {X, Y, Z} \cap SchemaNames(document) = {}

(***************************************************************************)
(* C7: cycle limitation.  A schema on a reference cycle (a self-reference  *)
(* included) that nothing surviving reaches is never deleted by the sweep. *)
(***************************************************************************)
C7_CycleLeft ==
  Succeeded =>
    \A P \in SchemaNames(before) :
      (OnCycle(before, P) /\ P \notin Live(Survivors(before, operationId)))
        => P \in SchemaNames(document)

\* P and Q reference only each other, only the deleted operation reaches P
C7_Witness ==
  /\ Succeeded
  /\ \E P, Q \in SchemaNames(before) :
       /\ P # Q
       /\ Direct(before, P) = {Q} /\ Direct(before, Q) = {P}
       /\ OnlyDeletedReaches(P)
       /\ {P, Q} \subseteq SchemaNames(document)

(***************************************************************************)
(* C8: reusable-component scan.  A schema that a reusable parameter,       *)
(* request body or response stored in the pool at call time reaches is not *)
(* deleted by a successful call, even when no path reaches it.             *)
(***************************************************************************)
ReusableReach(doc) == Reach(doc, SchemaTargets(ReusableRefs(doc)))

C8_ReusableScan ==
  Succeeded =>
    \A S \in SchemaNames(before) :
      S \in ReusableReach(before) => S \in SchemaNames(document)

\* S is referenced from a reusable entry alone, and from no path
C8_Witness ==
  /\ Succeeded
  /\ \E S \in SchemaNames(before) :
       /\ S \in SchemaTargets(ReusableRefs(before))
       /\ S \notin Reach(before, SchemaTargets(PathRefs(before)))
       /\ S \notin SchemaTargets(SchemaPoolRefs(before))
       /\ S \in SchemaNames(document)

(***************************************************************************)
(* C9: path pruning.                                                       *)
(***************************************************************************)
\* the methods of path entry e that deleteFunction(id) leaves
RestMethods(e, id) ==
  {m \in DOMAIN e.value.ops : e.value.ops[m].operationId # <<id>>}

Touched(e, id) == RestMethods(e, id) # DOMAIN e.value.ops

HoldsExactly(doc, e, rest) ==
  /\ e.name \in Names(doc.paths)
  /\ PathItemAt(doc, e.name) =
       [e.value EXCEPT !.ops = [m \in rest |-> e.value.ops[m]]]

\* C9 as stated: a path item that lost its last method is removed whatever
\* other keys it carries; one that keeps a method stays with exactly the
\* remaining methods
C9_PathPruning ==
  Succeeded =>
    \A e \in Range(before.paths) :
      Touched(e, operationId) =>
        IF RestMethods(e, operationId) = {}
        THEN e.name \notin Names(document.paths)
        ELSE HoldsExactly(document, e, RestMethods(e, operationId))

\* C9 amended: the path entry is removed exactly when the path item is left
\* with no key at all, neither a method nor another key such as path-level
\* parameters; otherwise it stays with the remaining methods and other keys
C9_PathPruningEmptyItem ==
  Succeeded =>
    \A e \in Range(before.paths) :
      Touched(e, operationId) =>
        IF RestMethods(e, operationId) = {} /\ e.value.parameters = <<>>
        THEN e.name \notin Names(document.paths)
        ELSE HoldsExactly(document, e, RestMethods(e, operationId))

\* one call removed the only method of a bare path item, whose entry went,
\* and the last method of an item with path-level parameters, which stayed
C9_Witness ==
  /\ Succeeded
  /\ \E e1, e2 \in Range(before.paths) :
       /\ Touched(e1, operationId) /\ RestMethods(e1, operationId) = {}
       /\ e1.value.parameters = <<>>
       /\ e1.name \notin Names(document.paths)
       /\ Touched(e2, operationId) /\ RestMethods(e2, operationId) = {}
       /\ e2.value.parameters # <<>>
       /\ e2.name \in Names(document.paths)

(***************************************************************************)
(* C10: operations that share the operationId passed to deleteFunction.    *)
(***************************************************************************)
SlotFilled(doc, slot) ==
  /\ slot.path \in Names(doc.paths)
  /\ slot.method \in DOMAIN PathItemAt(doc, slot.path).ops

\* C10 as stated: one call removes the first operation with that id in the
\* order of the enumeration and leaves the others in place
C10_FirstMatchOnly ==
  Succeeded =>
    LET slots == PathSlots(before.paths, operationId)
    IN /\ ~SlotFilled(document, slots[1])
       /\ \A i \in 2..Len(slots) : SlotFilled(document, slots[i])

\* C10 amended: one call removes every operation that carries the id, in
\* all paths and method slots
C10_EveryMatchRemoved ==
  Succeeded =>
    LET slots == PathSlots(before.paths, operationId)
    IN \A i \in 1..Len(slots) : ~SlotFilled(document, slots[i])

\* three operations shared the id and one call removed them all
C10_Witness ==
  /\ Succeeded
  /\ Len(PathSlots(before.paths, operationId)) = 3
  /\ PathSlots(document.paths, operationId) = <<>>


(***************************************************************************)
(* C11: tag preservation.  After a successful deleteFunction the tag list  *)
(* has lost exactly the entries named by a removed operation and used by   *)
(* no surviving one; every other entry stays, in order, used or not; and   *)
(* the list is taken out of the document exactly when filtering a list     *)
(* that had entries leaves it empty.                                       *)
(***************************************************************************)
TagList(doc) == IF doc.tags = <<>> THEN <<>> ELSE doc.tags[1]

\* the tags of the operations the call removes
RemovedTags(doc, id) == UNION {OperationTags(op) : op \in Matching(doc, id)}

\* the tags of the operations the call leaves
SurvivingTags(doc, id) ==
  UNION {OperationTags(op) :
           op \in {o \in Range(AllOperations(doc.paths)) : o.operationId # <<id>>}}

Orphaned(tag, doc, id) ==
  tag.name \in RemovedTags(doc, id) /\ tag.name \notin SurvivingTags(doc, id)

C11_TagPreservation ==
  Succeeded =>
    LET expected == SelectSeq(TagList(before),
                              LAMBDA tag : ~Orphaned(tag, before, operationId))
    IN /\ TagList(document) = expected
       /\ document.tags = <<>>
            <=> (before.tags = <<>> \/ (TagList(before) # <<>> /\ expected = <<>>))

\* one call removed a tag only the removed operation used, kept a tag a
\* surviving operation shares and left alone a tag no operation ever used
C11_Witness ==
  /\ Succeeded
  /\ \E t1, t2, t3 \in Range(TagList(before)) :
       /\ Orphaned(t1, before, operationId)
       /\ t1 \notin Range(TagList(document))
       /\ t2.name \in RemovedTags(before, operationId) \cap SurvivingTags(before, operationId)
       /\ t2 \in Range(TagList(document))
       /\ t3.name \notin RemovedTags(before, operationId) \cup SurvivingTags(before, operationId)
       /\ t3 \in Range(TagList(document))

(***************************************************************************)
(* C12: batch deletion.  handleDeleteSelected calls deleteFunction once    *)
(* per selected id; the claim is that every order of those calls leaves    *)
(* the same final document.                                                *)
(***************************************************************************)
\* the document that the calls of the latest batch leave when made in order
Reordered(order) == deleteSelected(before, order).document

Acyclic(doc) == \A n \in SchemaNames(doc) : ~OnCycle(doc, n)

\* a reusable parameter, response or request body named like a name that is
\* referenced as a schema
NameClash(doc) ==
  (Names(doc.parameters) \cup Names(doc.responses) \cup Names(doc.requestBodies))
    \cap Live(doc) # {}

\* C12 as stated: whatever the order of the calls of a batch, the final
\* document (paths, schemas, reusable pools, tags) is the same
C12_OrderIndependent ==
  batch # <<>> =>
    \A order \in Orders(Range(batch)) : Reordered(order) = document

\* C12 amended: the final paths and tags are the same in every order of the
\* calls; the component pools are the same too when no schema lies on a
\* reference cycle and no reusable parameter, response or request body is
\* named like a name referenced as a schema
C12_OrderIndependentPaths ==
  batch # <<>> =>
    \A order \in Orders(Range(batch)) :
      /\ Reordered(order).paths = document.paths
      /\ Reordered(order).tags = document.tags
      /\ Acyclic(before) /\ ~NameClash(before) => Reordered(order) = document

\* a batch of two deletions that both succeed, on a document where the order
\* cannot matter, that removes schemas and a reusable entry
C12_Witness ==
  /\ Len(batch) = 2
  /\ returned
  /\ Acyclic(before) /\ ~NameClash(before)
  /\ Names(before.responses) # {} /\ Names(document.responses) = {}
  /\ Matching(before, batch[1]) # {}
  /\ Matching(before, batch[2]) # {}
  /\ Reordered(Reverse(batch)) = document
  /\ SchemaNames(document) # SchemaNames(before)

(***************************************************************************)
(* C13: termination.  Every collectSchemaRefs call recurses into the pool  *)
(* entry of a name at most once, and deleteSchemas makes another pass only *)
(* after a pass that deleted a candidate, so at most (number of            *)
(* candidates + 1) passes.  Checked on the documents cleanupUnusedRefs is  *)
(* given, reference cycles and self-references included.                   *)
(***************************************************************************)
\* the schema nodes of doc that a collectSchemaRefs call can start from
CollectorInputs(doc) ==
  Range(PathsSchemas(doc.paths)) \cup Range(ComponentSchemas(doc))
    \cup Range(Values(doc.schemas))

NoRepeats(s) == \A i, j \in 1..Len(s) : s[i] = s[j] => i = j

\* the candidates cleanupUnusedRefs hands to deleteSchemas on document doc
Candidates(doc) == NamesNotIn(doc.schemas, getAllUsedRefs(doc))

\* the passes deleteSchemas makes on document doc
Passes(doc) == deleteSchemasLoop(doc, Candidates(doc), <<>>).passes

\* C13: no collectSchemaRefs call expands a name twice; every pass of the
\* sweep but the last one deleted a candidate, and the sweep makes at most
\* (number of candidates + 1) passes
C13_Termination ==
  /\ \A node \in CollectorInputs(before) :
       NoRepeats(collectSchemaRefsCall(before, node, {}).expanded)
  /\ Len(Passes(before)) <= Len(Candidates(before)) + 1
  /\ \A i \in 1..(Len(Passes(before)) - 1) : Passes(before)[i]

\* a cleanup that ran on a pool with a reference cycle among the candidates,
\* where a collector call met a name again and the sweep took three passes
C13_Witness ==
  /\ document = cleanupUnusedRefs(before, {})
  /\ document # before
  /\ \E n \in Range(Candidates(before)) : OnCycle(before, n)
  /\ \E n \in SchemaNames(before) :
       n \in Range(collectSchemaRefsCall(before, getSchemaByRef(before, n)[1], {}).expanded)
  /\ Len(Passes(before)) = 3

(***************************************************************************)
(* C14: the result of one collectSchemaRefs call, against reachability     *)
(* defined on the document alone.                                          *)
(***************************************************************************)
\* the names a node references directly: its own "$ref" or those nested
\* inline under items, properties, additionalProperties, allOf/oneOf/anyOf
Held(node) == SchemaTargets(NodeRefs(node))

\* the names reachable from a node through one or more reference hops
ReachFrom(doc, node) == Reach(doc, Held(node))

\* accumulators a call can be given: empty, or holding names already
Accumulators == {{}, {"C"}, {"A", "Z"}}

\* C14: one collectSchemaRefs(node, refs) call leaves in refs exactly what
\* it held before together with the names reachable from the node through
\* one or more reference hops
C14_CollectorResult ==
  \A node \in CollectorInputs(before) : \A refs \in Accumulators :
    collectSchemaRefs(before, node, refs) = refs \cup ReachFrom(before, node)

\* a call on an inline node (no "$ref" of its own) of the pool being cleaned
\* that adds a name two hops away, keeps a name the accumulator held, and
\* leaves a name of the pool out
C14_Witness ==
  /\ document = cleanupUnusedRefs(before, {})
  /\ \E node \in CollectorInputs(before) :
       LET result == collectSchemaRefs(before, node, {"A", "Z"})
       IN /\ node.ref = <<>>
          /\ Children(node) # {}
          /\ result = {"A", "Z"} \cup ReachFrom(before, node)
          /\ result \ ({"A", "Z"} \cup Held(node)) # {}
          /\ SchemaNames(before) \ result # {}

(***************************************************************************)
(* C15: pruning of the reusable parameters, responses and request bodies.  *)
(***************************************************************************)
\* the live names at the time of the scan: what the surviving operations,
\* the path-level parameters and the reusable entries still in the pools
\* reach as schema names
ScanNames(doc, id) == Live(Survivors(doc, id))

\* the entries of pool whose name is among names, in pool order
Kept(pool, names) == SelectSeq(pool, LAMBDA e : e.name \in names)

Unreferenced(doc, kind) ==
  \A r \in PathRefs(doc) \cup ReusableRefs(doc) \cup SchemaPoolRefs(doc) : RefKind(r) # kind

RECURSIVE PassSweep(_, _, _)
\* the schema names left by the sweep by passes: in one pass every candidate
\* whose directly referenced names are all either no candidate or already
\* deleted is marked, the marked candidates are deleted together, and passes
\* repeat while one deleted something and candidates remain
PassSweep(doc, present, candidates) ==
  LET deletable ==
        {c \in candidates : \A r \in Direct(doc, c) : r \notin candidates \/ r \notin present}
  IN IF deletable = {} THEN present
     ELSE PassSweep(doc, present \ deletable, candidates \ deletable)

\* C16: whatever the iteration order of the candidates, deleteSchemas leaves
\* exactly the schemas that the sweep by passes leaves
C16_SweepEquivalence ==
  LET candidates == Range(Candidates(before))
  IN \A order \in Orders(candidates) :
       SchemaNames(deleteSchemas(before, order))
         = PassSweep(before, SchemaNames(before), candidates)

\* a cleanup with three candidates of which one is deleted and one stays,
\* where a candidate collects transitively more than it references directly
C16_Witness ==
  LET candidates == Range(Candidates(before))
  IN /\ document = cleanupUnusedRefs(before, {})
     /\ Cardinality(candidates) = 3
     /\ candidates \cap SchemaNames(document) # {}
     /\ candidates \ SchemaNames(document) # {}
     /\ SchemaNames(document) = PassSweep(before, SchemaNames(before), candidates)
     /\ \E c \in candidates :
          collectSchemaRefs(before, getSchemaByRef(before, c)[1], {}) # Direct(before, c)

(***************************************************************************)
(* C17: references whose name has no entry in the schema pool.             *)
(***************************************************************************)
\* the names referenced as schemas somewhere in doc that its pool lacks
DanglingNames(doc) ==
  SchemaTargets(PathRefs(doc) \cup ReusableRefs(doc) \cup SchemaPoolRefs(doc))
    \ SchemaNames(doc)

RECURSIVE StripNode(_, _)
\* the node without its references to the names gone
StripNode(node, gone) ==
  IF ~IsObject(node) THEN node
  ELSE IF node.ref # <<>>
  THEN (IF RefKind(node.ref) = "schemas" /\ RefName(node.ref) \in gone THEN Leaf ELSE node)
  ELSE [ref |-> <<>>,
        items |-> [i \in 1..Len(node.items) |-> StripNode(node.items[i], gone)],
        properties |->
          [i \in 1..Len(node.properties) |-> StripNode(node.properties[i], gone)],
        additionalProperties |->
          [i \in 1..Len(node.additionalProperties) |->
             StripNode(node.additionalProperties[i], gone)],
        allOf |-> [i \in 1..Len(node.allOf) |-> StripNode(node.allOf[i], gone)],
        oneOf |-> [i \in 1..Len(node.oneOf) |-> StripNode(node.oneOf[i], gone)],
        anyOf |-> [i \in 1..Len(node.anyOf) |-> StripNode(node.anyOf[i], gone)]]

StripNodes(nodes, gone) == [i \in 1..Len(nodes) |-> StripNode(nodes[i], gone)]

StripParam(param, gone) == [ref |-> param.ref, schema |-> StripNodes(param.schema, gone)]

StripParams(params, gone) == [i \in 1..Len(params) |-> StripParam(params[i], gone)]

StripContent(content, gone) ==
  [i \in 1..Len(content) |->
     [name |-> content[i].name,
      value |-> [schema |-> StripNodes(content[i].value.schema, gone)]]]

StripBody(body, gone) ==
  [ref |-> body.ref,
   content |-> [i \in 1..Len(body.content) |-> StripContent(body.content[i], gone)]]

StripOperation(op, gone) ==
  [operationId |-> op.operationId,
   tags |-> op.tags,
   parameters |-> [i \in 1..Len(op.parameters) |-> StripParams(op.parameters[i], gone)],
   requestBody |-> [i \in 1..Len(op.requestBody) |-> StripBody(op.requestBody[i], gone)],
   responses |->
     [i \in 1..Len(op.responses) |->
        [name |-> op.responses[i].name, value |-> StripBody(op.responses[i].value, gone)]]]

StripPathItem(item, gone) ==
  [ops |-> [m \in DOMAIN item.ops |-> StripOperation(item.ops[m], gone)],
   parameters |->
     [i \in 1..Len(item.parameters) |-> StripParams(item.parameters[i], gone)]]

\* doc without its references to schema names the pool lacks
WithoutDangling(doc) ==
  LET gone == DanglingNames(doc)
  IN [paths |->
        [i \in 1..Len(doc.paths) |->
           [name |-> doc.paths[i].name, value |-> StripPathItem(doc.paths[i].value, gone)]],
      schemas |->
        [i \in 1..Len(doc.schemas) |->
           [name |-> doc.schemas[i].name, value |-> StripNode(doc.schemas[i].value, gone)]],
      parameters |->
        [i \in 1..Len(doc.parameters) |->
           [name |-> doc.parameters[i].name,
            value |-> StripParam(doc.parameters[i].value, gone)]],
      responses |->
        [i \in 1..Len(doc.responses) |->
           [name |-> doc.responses[i].name,
            value |-> StripBody(doc.responses[i].value, gone)]],
      requestBodies |->
        [i \in 1..Len(doc.requestBodies) |->
           [name |-> doc.requestBodies[i].name,
            value |-> StripBody(doc.requestBodies[i].value, gone)]],
      tags |-> doc.tags]

\* the pool names of doc, pool by pool
PoolNames(doc) ==
  [schemas |-> SchemaNames(doc), parameters |-> Names(doc.parameters),
   responses |-> Names(doc.responses), requestBodies |-> Names(doc.requestBodies)]

\* C17: a successful call on a document that holds dangling references
\* returns with the matching operations removed; every collectSchemaRefs
\* call on a surviving node records the dangling names the node reaches and
\* expands none of them; and every pool entry that the call would keep on the
\* same document without the dangling references is kept
C17_DanglingTolerated ==
  Succeeded /\ DanglingNames(before) # {} =>
    LET scanned == Survivors(before, operationId)
        plain == deleteFunction(WithoutDangling(before), operationId).document
    IN /\ Matching(document, operationId) = {}
       /\ \A node \in CollectorInputs(scanned) :
            LET call == collectSchemaRefsCall(scanned, node, {})
            IN /\ ReachFrom(scanned, node) \cap DanglingNames(before) \subseteq call.refs
               /\ Range(call.expanded) \cap DanglingNames(before) = {}
       /\ \A k \in DOMAIN PoolNames(plain) :
            PoolNames(plain)[k] \subseteq PoolNames(document)[k]

\* a successful call while a surviving operation holds a reference to a
\* schema the pool lacks, that deletes a schema and keeps another
C17_Witness ==
  /\ Succeeded
  /\ DanglingNames(before) \cap SchemaTargets(PathRefs(document)) # {}
  /\ DanglingNames(before) \subseteq getAllUsedRefs(Survivors(before, operationId))
  /\ SchemaNames(before) \ SchemaNames(document) # {}
  /\ SchemaNames(document) # {}

(***************************************************************************)
(* C18: deleting the same id again.                                        *)
(***************************************************************************)
\* C18: once deleteFunction(id) has returned, no operation of the path table
\* carries id, and a call with the same id that follows immediately returns
\* false and leaves the document as it was
C18_RepeatDelete ==
  /\ [](called # {} => Matching(document, operationId) = {})
  /\ [][(called # {} /\ operationId' = operationId)
          => (~returned' /\ document' = document)]_vars

\* the id was deleted by an earlier call and has been passed again: the
\* call returned false on an unchanged document
C18_Witness ==
  /\ called # {}
  /\ ~returned
  /\ document = before
  /\ document # initial
  /\ Matching(initial, operationId) # {}
  /\ Matching(document, operationId) = {}

(***************************************************************************)
(* C19: the frame of deleteFunction over a sequence of calls, against the  *)
(* document the editor was constructed with.                               *)
(***************************************************************************)
\* operation op carries none of the ids
Untouched(op, ids) == op.operationId = <<>> \/ op.operationId[1] \notin ids

\* sequence s is sequence t with some of its entries taken out
Thinned(s, t) == s = SelectSeq(t, LAMBDA e : e \in Range(s))

\* C19: after any sequence of calls, every operation of the loaded document
\* whose operationId is none of the ids passed so far is in the same path
\* and method slot with the same content; what the document holds is what
\* the loaded document held, less some paths, operations, pool entries and
\* tags: no path, operation, pool entry or tag is new or altered, and the
\* path-level parameters of the paths left are as loaded
C19_Frame ==
  /\ \A e \in Range(initial.paths) : \A m \in DOMAIN e.value.ops :
       Untouched(e.value.ops[m], called) =>
         /\ e.name \in Names(document.paths)
         /\ m \in DOMAIN PathItemAt(document, e.name).ops
         /\ PathItemAt(document, e.name).ops[m] = e.value.ops[m]
  /\ Thinned([i \in 1..Len(document.paths) |-> document.paths[i].name],
             [i \in 1..Len(initial.paths) |-> initial.paths[i].name])
  /\ \A e \in Range(document.paths) :
       /\ e.value.parameters = PathItemAt(initial, e.name).parameters
       /\ DOMAIN e.value.ops \subseteq DOMAIN PathItemAt(initial, e.name).ops
       /\ \A m \in DOMAIN e.value.ops : e.value.ops[m] = PathItemAt(initial, e.name).ops[m]
  /\ Thinned(document.schemas, initial.schemas)
  /\ Thinned(document.parameters, initial.parameters)
  /\ Thinned(document.responses, initial.responses)
  /\ Thinned(document.requestBodies, initial.requestBodies)
  /\ Thinned(TagList(document), TagList(initial))
  /\ initial.tags = <<>> => document.tags = <<>>

\* two ids have been deleted: an operation with another id, or with none,
\* is still in its slot next to a removed one, a path is gone, and a schema
\* or a tag is gone
C19_Witness ==
  /\ Cardinality({id \in called : Matching(initial, id) # {}}) = 2
  /\ \E e \in Range(initial.paths) : \E m, k \in DOMAIN e.value.ops :
       /\ Untouched(e.value.ops[m], called)
       /\ ~Untouched(e.value.ops[k], called)
       /\ e.name \in Names(document.paths)
       /\ PathItemAt(document, e.name).ops[m] = e.value.ops[m]
       /\ k \notin DOMAIN PathItemAt(document, e.name).ops
  /\ Names(document.paths) # Names(initial.paths)
  /\ \/ SchemaNames(document) # SchemaNames(initial)
     \/ TagList(document) # TagList(initial)

====
